---------------------------- MODULE Spec2Model ----------------------------
(***************************************************************************)
(* Monte-Carlo approximation of pi: the two programs of the repository.    *)
(*                                                                         *)
(*   "balken"  src/src/main.rs  equal split over thread_anzahl workers,    *)
(*             shared counters in PiRechner, a progress-display thread     *)
(*   "chunk"   src/main.rs      approximiere_pi: bounded-size chunks over  *)
(*             a rayon par_iter, one shared hit counter                    *)
(*                                                                         *)
(* One behaviour is one run of one of the two programs (variante is drawn  *)
(* in Init).  Every atomic access (fetch_add, load, store) is one step of   *)
(* its thread, so that all interleavings of the threads are explored.       *)
(*                                                                         *)
(* Scaling.  The sizes 10_000 (batch, src/src/main.rs:218), CHUNK_SIZE,    *)
(* MIN_TROPFEN and DEFAULT_TROPFEN (src/main.rs:10-12) and the 10 spinner  *)
(* states (src/src/main.rs:17) are replaced by the small values of         *)
(* BatchMax, CHUNK_SIZE, MIN_TROPFEN, DEFAULT_TROPFEN and SpinnerLaenge     *)
(* below, so that runs of several batches and chunks stay enumerable.  All  *)
(* sample counts stay far below 2^64: usize/u64 arithmetic does not wrap.   *)
(***************************************************************************)
EXTENDS Integers, Sequences, FiniteSets, TLC

\* ------------------------------------------------------------------ bounds
\* largest sample count the user types in
MaxN == 4
\* largest value of rayon::current_num_threads()
MaxThreads == 2
\* the random coordinates are k/Raster for k in 0..Raster-1, i.e. in [0,1)
Raster == 5
\* stands for the batch size 10_000 of src/src/main.rs:218
BatchMax == 2
\* stands for CHUNK_SIZE = 10_000 of src/main.rs:12
CHUNK_SIZE == 2
\* stands for MIN_TROPFEN = 1000 of src/main.rs:10
MIN_TROPFEN == 3
\* stands for DEFAULT_TROPFEN = 1_000_000 of src/main.rs:11
DEFAULT_TROPFEN == 4
\* stands for the 10 spinner states of src/src/main.rs:17
SpinnerLaenge == 2
\* largest sample count / thread count handed to the partitioner on its own
MaxTropfen == 45
MaxPartThreads == 3

\* ---------------------------------------------------------------- helpers
Min(a, b) == IF a <= b THEN a ELSE b
Max(a, b) == IF a >= b THEN a ELSE b

RECURSIVE Summe(_, _)
Summe(f, S) == IF S = {} THEN 0
               ELSE LET e == CHOOSE e \in S : TRUE IN f[e] + Summe(f, S \ {e})

\* what the user may type at the first prompt: the digits of a number, or
\* text that str::parse rejects
Eingaben == {[zahl |-> TRUE, wert |-> n] : n \in 0..MaxN}
                \cup {[zahl |-> FALSE, wert |-> 0]}

Koord == 0..(Raster - 1)

VARIABLES
    variante,            \* which of the two programs runs
    eingabe,             \* the text typed at the first prompt
    num_threads,         \* rayon::current_num_threads()
    \* ---- src/src/main.rs
    pcMain,              \* position of main
    gesamt_punkte,       \* main: gesamt_punkte
    punkte_pro_thread,   \* main: punkte_pro_thread
    rechner_erstellt,    \* PiRechner::new has run
    punkte_innen,        \* PiRechner.punkte_innen
    punkte_gesamt,       \* PiRechner.punkte_gesamt
    thread_fortschritte, \* PiRechner.thread_fortschritte[i].fortschritt
    spinner_aktuell,     \* PiRechner.spinner.aktuell
    pc,                  \* position of the task of each thread_id
    verarbeitet,         \* for_each closure: verarbeitet
    batch_groesse,       \* for_each closure: batch_groesse
    lokale_treffer,      \* verarbeite_batch: lokale_treffer
    gezogen,             \* history: the hits each task has drawn so far
    schleife_i,          \* verarbeite_batch: iterations of the for loop done
    aktuell,             \* verarbeite_batch: aktuell
    joinErgebnis,        \* result of berechnungs_handle.join()
    melderPc,            \* position of the display thread
    melder_i,            \* aktualisiere_anzeige of the display thread: i
    melder_fortschritt,  \* aktualisiere_anzeige of the display thread: fortschritt
    anzeige_i,           \* aktualisiere_anzeige of main: i
    bildschirm,          \* the progress line last printed for each thread
    pi_approximation,    \* main: pi_approximation
    \* ---- src/main.rs
    cpc,                 \* position of main / berechne_pi / approximiere_pi
    tropfenzahl,         \* berechne_pi: tropfenzahl
    chunk_size,          \* approximiere_pi: chunk_size
    chunks,              \* approximiere_pi: chunks
    counter,             \* approximiere_pi: counter
    chunkPc,             \* position of the task of each chunk
    local_count,         \* for_each closure: local_count
    chunk_pos,           \* for_each closure: position in start..end
    pi_approx            \* Ergebnis.pi_approx

balkenVars == <<pcMain, gesamt_punkte, punkte_pro_thread, rechner_erstellt,
                punkte_innen, punkte_gesamt, thread_fortschritte,
                spinner_aktuell, pc, verarbeitet, batch_groesse,
                lokale_treffer, gezogen, schleife_i, aktuell, joinErgebnis, melderPc,
                melder_i, melder_fortschritt, anzeige_i, bildschirm,
                pi_approximation>>

chunkVars == <<cpc, tropfenzahl, chunk_size, chunks, counter, chunkPc,
               local_count, chunk_pos, pi_approx>>

envVars == <<variante, eingabe, num_threads>>

vars == <<envVars, balkenVars, chunkVars>>

\* the thread ids of (0..thread_anzahl)
ThreadIds == 0..(num_threads - 1)

\* ------------------------------------------------------- pure functions
\* AtomicUsize::fetch_add / AtomicU64::fetch_add: the new value
fetch_add_speichert(alt, delta) == delta
fetch_add_eins(alt, delta) == alt + 1
fetch_add(alt, delta) == alt + delta

\* the quarter-circle test on the point (x/Raster, y/Raster)
im_kreis(x, y) == x * x + y * y <= Raster * Raster

\* the outcomes of the test for one random point: let x = rng.gen(), let
\* y = rng.gen(), x * x + y * y <= 1.0
Wuerfe == {im_kreis(x, y) : x \in Koord, y \in Koord}

\* Spinner::naechster, lines 23-26: aktuell.fetch_add(1); the model keeps the
\* counter modulo the number of spinner states, which is all that is ever
\* shown
naechster(sp) == (sp + 1) % SpinnerLaenge

\* 4.0 * innen / gesamt as f64: the exact ratio, or what IEEE division by
\* zero gives
berechne_pi(innen, gesamt) ==
    IF gesamt = 0
    THEN (IF innen = 0 THEN <<"NaN">> ELSE <<"inf">>)
    ELSE <<4 * innen, gesamt>>

\* let batch_groesse = 10_000.min(verbleibend)
BatchGroesse_null(verbleibend) == 0
BatchGroesse_voll(verbleibend) == BatchMax
BatchGroesse(verbleibend) == Min(BatchMax, verbleibend)

\* let punkte_pro_thread = gesamt_punkte / thread_anzahl
PunkteProThread(n, t) == n \div t

\* erstelle_fortschrittsbalken(prozent.min(100.0), 50) for
\* prozent = fortschritt / punkte_pro_thread * 100: the filled width and the
\* percentage in tenths ({:.1} rounds).  0/0 is NaN and NaN.min(100.0) is
\* 100.0.
Balken(fortschritt, ppt) ==
    IF ppt = 0
    THEN <<50, 1000>>
    ELSE <<Min(50, (fortschritt * 50) \div ppt),
           Min(1000, (fortschritt * 2000 + ppt) \div (2 * ppt))>>

\* validate_tropfenzahl, lines 83-89: Ok(n) or an error
validate_tropfenzahl_ohne_grenze(input) ==
    IF input.zahl
    THEN [ok |-> TRUE, wert |-> input.wert]
    ELSE [ok |-> FALSE, wert |-> 0]
validate_tropfenzahl(input) ==
    IF input.zahl /\ input.wert >= MIN_TROPFEN
    THEN [ok |-> TRUE, wert |-> input.wert]
    ELSE [ok |-> FALSE, wert |-> 0]

\* approximiere_pi, lines 36-38: the chunk size
ChunkSize_ohne_min(n, t) == Max(n \div (t * 10), CHUNK_SIZE)
ChunkSize(n, t) == Min(Max(n \div (t * 10), CHUNK_SIZE), n)

\* approximiere_pi, lines 41-43: (0..tropfenzahl).step_by(chunk_size), the
\* start indices from..from+k*step below n
StepBy_inklusive(from, n, step) ==
    [k \in 1..(((n - from) \div step) + 1) |-> from + (k - 1) * step]
RECURSIVE StepBy(_, _, _)
StepBy(from, n, step) ==
    IF from >= n THEN <<>> ELSE <<from>> \o StepBy(from + step, n, step)

\* approximiere_pi, line 50: end = (start + chunk_size).min(tropfenzahl)
ChunkEnde_ohne_min(start, c, n) == start + c
ChunkEnde(start, c, n) == Min(start + c, n)

\* approximiere_pi, line 70: 4.0 * counter / tropfenzahl as f64
pi_aus_counter(treffer, n) ==
    IF n = 0
    THEN (IF treffer = 0 THEN <<"NaN">> ELSE <<"inf">>)
    ELSE <<4 * treffer, n>>

\* -------------------------------------------------------------------- Init
Init ==
    /\ variante \in {"balken", "chunk"}
    /\ eingabe \in Eingaben
    /\ num_threads \in 1..MaxThreads
    /\ pcMain = "eingabe"
    /\ gesamt_punkte = 0
    /\ punkte_pro_thread = 0
    /\ rechner_erstellt = FALSE
    /\ punkte_innen = 0
    /\ punkte_gesamt = 0
    /\ thread_fortschritte = [i \in ThreadIds |-> 0]
    /\ spinner_aktuell = 0
    /\ pc = [i \in ThreadIds |-> "wartet"]
    /\ verarbeitet = [i \in ThreadIds |-> 0]
    /\ batch_groesse = [i \in ThreadIds |-> 0]
    /\ lokale_treffer = [i \in ThreadIds |-> 0]
    /\ gezogen = [i \in ThreadIds |-> 0]
    /\ schleife_i = [i \in ThreadIds |-> 0]
    /\ aktuell = [i \in ThreadIds |-> 0]
    /\ joinErgebnis = "offen"
    /\ melderPc = "nicht_gestartet"
    /\ melder_i = 0
    /\ melder_fortschritt = 0
    /\ anzeige_i = 0
    /\ bildschirm = [i \in ThreadIds |-> <<>>]
    /\ pi_approximation = <<>>
    /\ cpc = "eingabe"
    /\ tropfenzahl = 0
    /\ chunk_size = 0
    /\ chunks = <<>>
    /\ counter = 0
    /\ chunkPc = <<>>
    /\ local_count = <<>>
    /\ chunk_pos = <<>>
    /\ pi_approx = <<>>

\* ============================================================ src/src/main.rs
Balkenlauf == variante = "balken"

\* the process of src/src/main.rs is alive: main has neither returned nor
\* panicked
ProzessLebt == pcMain \notin {"ende", "panik", "abgebrochen"}

\* main, lines 173-180: read and parse the sample count, split it
LiesEingabe ==
    /\ Balkenlauf
    /\ pcMain = "eingabe"
    /\ IF ~eingabe.zahl
       THEN /\ pcMain' = "panik"
            /\ UNCHANGED <<gesamt_punkte, punkte_pro_thread>>
       ELSE /\ gesamt_punkte' = eingabe.wert
            /\ punkte_pro_thread' = PunkteProThread(eingabe.wert, num_threads)
            /\ pcMain' = "bestaetigen"
    /\ UNCHANGED <<envVars, chunkVars, rechner_erstellt, punkte_innen,
                   punkte_gesamt, thread_fortschritte, spinner_aktuell, pc,
                   verarbeitet, batch_groesse, lokale_treffer, gezogen, schleife_i,
                   aktuell, joinErgebnis, melderPc, melder_i,
                   melder_fortschritt, anzeige_i, bildschirm,
                   pi_approximation>>

\* main, lines 183-190: the (Y/n) prompt
Bestaetige ==
    /\ Balkenlauf
    /\ pcMain = "bestaetigen"
    /\ \E antwort \in {"y", "n"} :
          pcMain' = IF antwort = "n" THEN "abgebrochen" ELSE "bestaetigt"
    /\ UNCHANGED <<envVars, chunkVars, gesamt_punkte, punkte_pro_thread,
                   rechner_erstellt, punkte_innen, punkte_gesamt,
                   thread_fortschritte, spinner_aktuell, pc, verarbeitet,
                   batch_groesse, lokale_treffer, gezogen, schleife_i, aktuell,
                   joinErgebnis, melderPc, melder_i, melder_fortschritt,
                   anzeige_i, bildschirm, pi_approximation>>

\* main, lines 193-203: PiRechner::new (lines 44-57) and initialisiere_anzeige
\* (lines 112-124)
Erstelle ==
    /\ Balkenlauf
    /\ pcMain = "bestaetigt"
    /\ rechner_erstellt' = TRUE
    /\ punkte_innen' = 0
    /\ punkte_gesamt' = 0
    /\ thread_fortschritte' = [i \in ThreadIds |-> 0]
    /\ spinner_aktuell' = 0
    /\ bildschirm' = [i \in ThreadIds |-> <<0, 0>>]
    /\ pcMain' = "erstellt"
    /\ UNCHANGED <<envVars, chunkVars, gesamt_punkte, punkte_pro_thread, pc,
                   verarbeitet, batch_groesse, lokale_treffer, gezogen, schleife_i,
                   aktuell, joinErgebnis, melderPc, melder_i,
                   melder_fortschritt, anzeige_i, pi_approximation>>

\* main, lines 209-212: spawn the computation thread; its par_iter creates one
\* task per thread_id, each starting with verarbeitet = 0
StarteBerechnung ==
    /\ Balkenlauf
    /\ pcMain = "erstellt"
    /\ pc' = [i \in ThreadIds |-> "schleife"]
    /\ verarbeitet' = [i \in ThreadIds |-> 0]
    /\ pcMain' = "berechnung_gestartet"
    /\ UNCHANGED <<envVars, chunkVars, gesamt_punkte, punkte_pro_thread,
                   rechner_erstellt, punkte_innen, punkte_gesamt,
                   thread_fortschritte, spinner_aktuell, batch_groesse,
                   lokale_treffer, gezogen, schleife_i, aktuell, joinErgebnis,
                   melderPc, melder_i, melder_fortschritt, anzeige_i,
                   bildschirm, pi_approximation>>

\* main, lines 230-244: spawn the display thread
StarteMelder ==
    /\ Balkenlauf
    /\ pcMain = "berechnung_gestartet"
    /\ melderPc' = "pruefe"
    /\ pcMain' = "join"
    /\ UNCHANGED <<envVars, chunkVars, gesamt_punkte, punkte_pro_thread,
                   rechner_erstellt, punkte_innen, punkte_gesamt,
                   thread_fortschritte, spinner_aktuell, pc, verarbeitet,
                   batch_groesse, lokale_treffer, gezogen, schleife_i, aktuell,
                   joinErgebnis, melder_i, melder_fortschritt, anzeige_i,
                   bildschirm, pi_approximation>>

\* ---- the task of thread_id i (lines 211-226 and verarbeite_batch, 67-97)
workerUnchanged == <<envVars, chunkVars, pcMain, gesamt_punkte,
                     punkte_pro_thread, rechner_erstellt, spinner_aktuell,
                     joinErgebnis, melderPc, melder_i, melder_fortschritt,
                     anzeige_i, bildschirm, pi_approximation>>

\* lines 215-218 and 69-70: the loop test, the batch size, the entry of
\* verarbeite_batch
BeginneBatch(i) ==
    /\ Balkenlauf /\ ProzessLebt
    /\ pc[i] = "schleife"
    /\ IF verarbeitet[i] < punkte_pro_thread
       THEN /\ batch_groesse' = [batch_groesse EXCEPT ![i] =
                                   BatchGroesse(punkte_pro_thread - verarbeitet[i])]
            /\ lokale_treffer' = [lokale_treffer EXCEPT ![i] = 0]
            /\ UNCHANGED gezogen
            /\ schleife_i' = [schleife_i EXCEPT ![i] = 0]
            /\ pc' = [pc EXCEPT ![i] = "sampling"]
       ELSE /\ pc' = [pc EXCEPT ![i] = "fertig"]
            /\ UNCHANGED <<batch_groesse, lokale_treffer, gezogen, schleife_i>>
    /\ UNCHANGED <<workerUnchanged, punkte_innen, punkte_gesamt,
                   thread_fortschritte, verarbeitet, aktuell>>

\* line 69: rand::thread_rng() panics when the random source cannot be set
\* up; the panic ends the task and reaches main as the Err of join (line 249)
Panik(i) ==
    /\ Balkenlauf /\ ProzessLebt
    /\ pc[i] = "schleife"
    /\ verarbeitet[i] < punkte_pro_thread
    /\ pc' = [pc EXCEPT ![i] = "panik"]
    /\ UNCHANGED <<workerUnchanged, punkte_innen, punkte_gesamt,
                   thread_fortschritte, verarbeitet, batch_groesse,
                   lokale_treffer, gezogen, schleife_i, aktuell>>

\* lines 73-82: one iteration of the sampling loop
Sample(i) ==
    /\ Balkenlauf /\ ProzessLebt
    /\ pc[i] = "sampling"
    /\ IF schleife_i[i] < batch_groesse[i]
       THEN /\ \E treffer \in Wuerfe :
                  /\ lokale_treffer' = [lokale_treffer EXCEPT ![i] =
                                          IF treffer THEN @ + 1 ELSE @]
                  /\ gezogen' = [gezogen EXCEPT ![i] =
                                   IF treffer THEN @ + 1 ELSE @]
            /\ schleife_i' = [schleife_i EXCEPT ![i] = @ + 1]
            /\ UNCHANGED pc
       ELSE /\ pc' = [pc EXCEPT ![i] = "add_innen"]
            /\ UNCHANGED <<lokale_treffer, gezogen, schleife_i>>
    /\ UNCHANGED <<workerUnchanged, punkte_innen, punkte_gesamt,
                   thread_fortschritte, verarbeitet, batch_groesse, aktuell>>

\* lines 85-86: punkte_innen.fetch_add(lokale_treffer)
AddInnen(i) ==
    /\ Balkenlauf /\ ProzessLebt
    /\ pc[i] = "add_innen"
    /\ punkte_innen' = fetch_add(punkte_innen, lokale_treffer[i])
    /\ pc' = [pc EXCEPT ![i] = "add_gesamt"]
    /\ UNCHANGED <<workerUnchanged, punkte_gesamt, thread_fortschritte,
                   verarbeitet, batch_groesse, lokale_treffer, gezogen, schleife_i,
                   aktuell>>

\* line 87: punkte_gesamt.fetch_add(batch_groesse)
AddGesamt(i) ==
    /\ Balkenlauf /\ ProzessLebt
    /\ pc[i] = "add_gesamt"
    /\ punkte_gesamt' = fetch_add(punkte_gesamt, batch_groesse[i])
    /\ pc' = [pc EXCEPT ![i] = "load_fortschritt"]
    /\ UNCHANGED <<workerUnchanged, punkte_innen, thread_fortschritte,
                   verarbeitet, batch_groesse, lokale_treffer, gezogen, schleife_i,
                   aktuell>>

\* lines 90-93: aktuell = fortschritt.load() + batch_groesse
LadeFortschritt_ohne_batch(i) ==
    /\ Balkenlauf /\ ProzessLebt
    /\ pc[i] = "load_fortschritt"
    /\ aktuell' = [aktuell EXCEPT ![i] = thread_fortschritte[i]]
    /\ pc' = [pc EXCEPT ![i] = "store_fortschritt"]
    /\ UNCHANGED <<workerUnchanged, punkte_innen, punkte_gesamt,
                   thread_fortschritte, verarbeitet, batch_groesse,
                   lokale_treffer, gezogen, schleife_i>>
LadeFortschritt(i) ==
    /\ Balkenlauf /\ ProzessLebt
    /\ pc[i] = "load_fortschritt"
    /\ aktuell' = [aktuell EXCEPT ![i] = thread_fortschritte[i] + batch_groesse[i]]
    /\ pc' = [pc EXCEPT ![i] = "store_fortschritt"]
    /\ UNCHANGED <<workerUnchanged, punkte_innen, punkte_gesamt,
                   thread_fortschritte, verarbeitet, batch_groesse,
                   lokale_treffer, gezogen, schleife_i>>

\* lines 94-96 and 224: fortschritt.store(aktuell); back in the closure,
\* verarbeitet += batch_groesse
SpeichereFortschritt_null(i) ==
    /\ Balkenlauf /\ ProzessLebt
    /\ pc[i] = "store_fortschritt"
    /\ thread_fortschritte' = [thread_fortschritte EXCEPT ![0] = aktuell[i]]
    /\ verarbeitet' = [verarbeitet EXCEPT ![i] = @ + batch_groesse[i]]
    /\ pc' = [pc EXCEPT ![i] = "schleife"]
    /\ UNCHANGED <<workerUnchanged, punkte_innen, punkte_gesamt,
                   batch_groesse, lokale_treffer, gezogen, schleife_i, aktuell>>
SpeichereFortschritt(i) ==
    /\ Balkenlauf /\ ProzessLebt
    /\ pc[i] = "store_fortschritt"
    /\ thread_fortschritte' = [thread_fortschritte EXCEPT ![i] = aktuell[i]]
    /\ verarbeitet' = [verarbeitet EXCEPT ![i] = @ + batch_groesse[i]]
    /\ pc' = [pc EXCEPT ![i] = "schleife"]
    /\ UNCHANGED <<workerUnchanged, punkte_innen, punkte_gesamt,
                   batch_groesse, lokale_treffer, gezogen, schleife_i, aktuell>>

\* the steps of the task of thread_id i when nothing fails
Worker(i) ==
    \/ BeginneBatch(i)
    \/ Sample(i)
    \/ AddInnen(i)
    \/ AddGesamt(i)
    \/ LadeFortschritt(i)
    \/ SpeichereFortschritt(i)

\* ---- the display thread (lines 231-244) running aktualisiere_anzeige
\* (lines 127-148)
melderUnchanged == <<envVars, chunkVars, pcMain, gesamt_punkte,
                     punkte_pro_thread, rechner_erstellt, punkte_innen,
                     punkte_gesamt, thread_fortschritte, pc, verarbeitet,
                     batch_groesse, lokale_treffer, gezogen, schleife_i, aktuell,
                     joinErgebnis, anzeige_i, pi_approximation>>

\* the loop test of line 233
MelderFaehrtFort(gesamt, ziel) == gesamt < ziel

\* line 233 and, when the loop goes on, the head of aktualisiere_anzeige
\* (lines 132-134)
MelderPruefe ==
    /\ Balkenlauf /\ ProzessLebt
    /\ melderPc = "pruefe"
    /\ IF MelderFaehrtFort(punkte_gesamt, gesamt_punkte)
       THEN /\ spinner_aktuell' = naechster(spinner_aktuell)
            /\ melder_i' = 0
            /\ melderPc' = "lese"
       ELSE /\ melderPc' = "beendet"
            /\ UNCHANGED <<spinner_aktuell, melder_i>>
    /\ UNCHANGED <<melderUnchanged, melder_fortschritt, bildschirm>>

\* lines 138-140: fortschritt = thread_fortschritte[i].fortschritt.load()
MelderLese_swap ==
    /\ Balkenlauf /\ ProzessLebt
    /\ melderPc = "lese"
    /\ melder_fortschritt' = thread_fortschritte[melder_i]
    /\ thread_fortschritte' = [thread_fortschritte EXCEPT ![melder_i] = 0]
    /\ melderPc' = "drucke"
    /\ UNCHANGED <<envVars, chunkVars, pcMain, gesamt_punkte,
                   punkte_pro_thread, rechner_erstellt, punkte_innen,
                   punkte_gesamt, pc, verarbeitet, batch_groesse,
                   lokale_treffer, gezogen, schleife_i, aktuell,
                   joinErgebnis, anzeige_i, pi_approximation,
                   spinner_aktuell, melder_i, bildschirm>>
MelderLese ==
    /\ Balkenlauf /\ ProzessLebt
    /\ melderPc = "lese"
    /\ melder_fortschritt' = thread_fortschritte[melder_i]
    /\ melderPc' = "drucke"
    /\ UNCHANGED <<melderUnchanged, spinner_aktuell, melder_i, bildschirm>>

\* lines 141-144: print the line of thread i; after the last line flush and
\* sleep (lines 147, 241), then test the loop condition again
MelderDrucke ==
    /\ Balkenlauf /\ ProzessLebt
    /\ melderPc = "drucke"
    /\ bildschirm' = [bildschirm EXCEPT ![melder_i] =
                        Balken(melder_fortschritt, punkte_pro_thread)]
    /\ melder_i' = melder_i + 1
    /\ melderPc' = IF melder_i + 1 < num_threads THEN "lese" ELSE "pruefe"
    /\ UNCHANGED <<melderUnchanged, spinner_aktuell, melder_fortschritt>>

Melder == MelderPruefe \/ MelderLese \/ MelderDrucke

\* ---- main after the two spawns
\* every task of the par_iter has ended, normally or by a panic
AlleWorkerBeendet_einer == \E i \in ThreadIds : pc[i] \in {"fertig", "panik"}
AlleWorkerBeendet == \A i \in ThreadIds : pc[i] \in {"fertig", "panik"}

\* lines 247-253: berechnungs_handle.join() returns once for_each has
\* returned or has propagated the panic of a task; then the head of the last
\* aktualisiere_anzeige (lines 132-134)
Join ==
    /\ Balkenlauf
    /\ pcMain = "join"
    /\ AlleWorkerBeendet
    /\ joinErgebnis' = IF \E i \in ThreadIds : pc[i] = "panik"
                       THEN "Err" ELSE "Ok"
    /\ spinner_aktuell' = naechster(spinner_aktuell)
    /\ anzeige_i' = 0
    /\ pcMain' = "anzeige"
    /\ UNCHANGED <<envVars, chunkVars, gesamt_punkte, punkte_pro_thread,
                   rechner_erstellt, punkte_innen, punkte_gesamt,
                   thread_fortschritte, pc, verarbeitet, batch_groesse,
                   lokale_treffer, gezogen, schleife_i, aktuell, melderPc, melder_i,
                   melder_fortschritt, bildschirm, pi_approximation>>

\* line 253, lines 137-145: one line of the last aktualisiere_anzeige
LetzteAnzeige ==
    /\ Balkenlauf
    /\ pcMain = "anzeige"
    /\ anzeige_i < num_threads
    /\ bildschirm' = [bildschirm EXCEPT ![anzeige_i] =
                        Balken(thread_fortschritte[anzeige_i], punkte_pro_thread)]
    /\ anzeige_i' = anzeige_i + 1
    /\ UNCHANGED <<envVars, chunkVars, pcMain, gesamt_punkte,
                   punkte_pro_thread, rechner_erstellt, punkte_innen,
                   punkte_gesamt, thread_fortschritte, spinner_aktuell, pc,
                   verarbeitet, batch_groesse, lokale_treffer, gezogen, schleife_i,
                   aktuell, joinErgebnis, melderPc, melder_i,
                   melder_fortschritt, pi_approximation>>

\* lines 256-265: rechner.berechne_pi() (lines 60-64)
Berechne ==
    /\ Balkenlauf
    /\ pcMain = "anzeige"
    /\ anzeige_i = num_threads
    /\ pi_approximation' = berechne_pi(punkte_innen, punkte_gesamt)
    /\ pcMain' = "aggregiert"
    /\ UNCHANGED <<envVars, chunkVars, gesamt_punkte, punkte_pro_thread,
                   rechner_erstellt, punkte_innen, punkte_gesamt,
                   thread_fortschritte, spinner_aktuell, pc, verarbeitet,
                   batch_groesse, lokale_treffer, gezogen, schleife_i, aktuell,
                   joinErgebnis, melderPc, melder_i, melder_fortschritt,
                   anzeige_i, bildschirm>>

\* lines 267-282: print the results and return; the process ends and takes
\* the display thread with it
Ausgabe ==
    /\ Balkenlauf
    /\ pcMain = "aggregiert"
    /\ pcMain' = "ende"
    /\ UNCHANGED <<envVars, chunkVars, gesamt_punkte, punkte_pro_thread,
                   rechner_erstellt, punkte_innen, punkte_gesamt,
                   thread_fortschritte, spinner_aktuell, pc, verarbeitet,
                   batch_groesse, lokale_treffer, gezogen, schleife_i, aktuell,
                   joinErgebnis, melderPc, melder_i, melder_fortschritt,
                   anzeige_i, bildschirm, pi_approximation>>

MainBalken ==
    \/ LiesEingabe
    \/ Bestaetige
    \/ Erstelle
    \/ StarteBerechnung
    \/ StarteMelder
    \/ Join
    \/ LetzteAnzeige
    \/ Berechne
    \/ Ausgabe

\* a run of src/src/main.rs in which no task panics
NextOhnePanik ==
    \/ LiesEingabe
    \/ Bestaetige
    \/ Erstelle
    \/ StarteBerechnung
    \/ StarteMelder
    \/ Join
    \/ LetzteAnzeige
    \/ Berechne
    \/ Ausgabe
    \/ \E i \in ThreadIds : BeginneBatch(i)
    \/ \E i \in ThreadIds : Sample(i)
    \/ \E i \in ThreadIds : AddInnen(i)
    \/ \E i \in ThreadIds : AddGesamt(i)
    \/ \E i \in ThreadIds : LadeFortschritt(i)
    \/ \E i \in ThreadIds : SpeichereFortschritt(i)
    \/ MelderPruefe
    \/ MelderLese
    \/ MelderDrucke

NextBalken ==
    \/ NextOhnePanik
    \/ \E i \in ThreadIds : Panik(i)

\* ================================================================ src/main.rs
Chunklauf == variante = "chunk"

\* berechne_pi, lines 94-100: read the sample count, validate it, fall back
\* to the default
CLiesEingabe ==
    /\ Chunklauf
    /\ cpc = "eingabe"
    /\ LET v == validate_tropfenzahl(eingabe)
       IN  tropfenzahl' = IF v.ok THEN v.wert ELSE DEFAULT_TROPFEN
    /\ cpc' = "bestaetigen"
    /\ UNCHANGED <<envVars, balkenVars, chunk_size, chunks, counter, chunkPc,
                   local_count, chunk_pos, pi_approx>>

\* berechne_pi, lines 103-107: the (Y/n) prompt
CBestaetige ==
    /\ Chunklauf
    /\ cpc = "bestaetigen"
    /\ \E antwort \in {"y", "n"} :
          cpc' = IF antwort = "n" THEN "abgebrochen" ELSE "bestaetigt"
    /\ UNCHANGED <<envVars, balkenVars, tropfenzahl, chunk_size, chunks,
                   counter, chunkPc, local_count, chunk_pos, pi_approx>>

\* approximiere_pi, lines 29-46: the counter, the chunk size, the start
\* indices; step_by panics on a step of 0
Partitioniere ==
    /\ Chunklauf
    /\ cpc = "bestaetigt"
    /\ counter' = 0
    /\ chunk_size' = ChunkSize(tropfenzahl, num_threads)
    /\ IF chunk_size' = 0
       THEN /\ cpc' = "panik"
            /\ UNCHANGED <<chunks, chunkPc, local_count, chunk_pos>>
       ELSE /\ chunks' = StepBy(0, tropfenzahl, chunk_size')
            /\ chunkPc' = [k \in 1..Len(chunks') |-> "wartet"]
            /\ local_count' = [k \in 1..Len(chunks') |-> 0]
            /\ chunk_pos' = [k \in 1..Len(chunks') |-> 0]
            /\ cpc' = "for_each"
    /\ UNCHANGED <<envVars, balkenVars, tropfenzahl, pi_approx>>

\* the tasks of the par_iter that a rayon thread is working on
ChunksInArbeit == {k \in DOMAIN chunkPc : chunkPc[k] \in {"sampling", "add"}}

chunkTaskUnchanged == <<envVars, balkenVars, cpc, tropfenzahl, chunk_size,
                        chunks, pi_approx>>

\* lines 47-50: a free thread of the pool takes the chunk
ChunkStart(k) ==
    /\ Chunklauf
    /\ cpc = "for_each"
    /\ chunkPc[k] = "wartet"
    /\ Cardinality(ChunksInArbeit) < num_threads
    /\ local_count' = [local_count EXCEPT ![k] = 0]
    /\ chunk_pos' = [chunk_pos EXCEPT ![k] = chunks[k]]
    /\ chunkPc' = [chunkPc EXCEPT ![k] = "sampling"]
    /\ UNCHANGED <<chunkTaskUnchanged, counter>>

\* line 48: rand::thread_rng() panics when the random source cannot be set up
ChunkPanik(k) ==
    /\ Chunklauf
    /\ cpc = "for_each"
    /\ chunkPc[k] = "wartet"
    /\ Cardinality(ChunksInArbeit) < num_threads
    /\ chunkPc' = [chunkPc EXCEPT ![k] = "panik"]
    /\ UNCHANGED <<chunkTaskUnchanged, counter, local_count, chunk_pos>>

\* lines 53-62: one iteration of for _ in start..end
ChunkSample(k) ==
    /\ Chunklauf
    /\ cpc = "for_each"
    /\ chunkPc[k] = "sampling"
    /\ IF chunk_pos[k] < ChunkEnde(chunks[k], chunk_size, tropfenzahl)
       THEN /\ \E treffer \in Wuerfe :
                  local_count' = [local_count EXCEPT ![k] =
                                    IF treffer THEN @ + 1 ELSE @]
            /\ chunk_pos' = [chunk_pos EXCEPT ![k] = @ + 1]
            /\ UNCHANGED chunkPc
       ELSE /\ chunkPc' = [chunkPc EXCEPT ![k] = "add"]
            /\ UNCHANGED <<local_count, chunk_pos>>
    /\ UNCHANGED <<chunkTaskUnchanged, counter>>

\* line 65: counter.fetch_add(local_count)
ChunkAdd(k) ==
    /\ Chunklauf
    /\ cpc = "for_each"
    /\ chunkPc[k] = "add"
    /\ counter' = fetch_add(counter, local_count[k])
    /\ chunkPc' = [chunkPc EXCEPT ![k] = "fertig"]
    /\ UNCHANGED <<chunkTaskUnchanged, local_count, chunk_pos>>


\* every task of the par_iter has ended, normally or by a panic
AlleChunksBeendet == \A k \in DOMAIN chunkPc : chunkPc[k] \in {"fertig", "panik"}

\* lines 66-70: for_each returns, or propagates the panic of a task through
\* approximiere_pi, berechne_pi and main; then counter.load() and the estimate
ForEachEnde ==
    /\ Chunklauf
    /\ cpc = "for_each"
    /\ AlleChunksBeendet
    /\ IF \E k \in DOMAIN chunkPc : chunkPc[k] = "panik"
       THEN /\ cpc' = "panik"
            /\ UNCHANGED pi_approx
       ELSE /\ pi_approx' = pi_aus_counter(counter, tropfenzahl)
            /\ cpc' = "berechnet"
    /\ UNCHANGED <<envVars, balkenVars, tropfenzahl, chunk_size, chunks,
                   counter, chunkPc, local_count, chunk_pos>>

\* berechne_pi, lines 113-121, and main, lines 134-143: print the result
CAusgabe ==
    /\ Chunklauf
    /\ cpc = "berechnet"
    /\ cpc' = "ende"
    /\ UNCHANGED <<envVars, balkenVars, tropfenzahl, chunk_size, chunks,
                   counter, chunkPc, local_count, chunk_pos, pi_approx>>

NextChunk ==
    \/ CLiesEingabe
    \/ CBestaetige
    \/ Partitioniere
    \/ ForEachEnde
    \/ CAusgabe
    \/ \E k \in DOMAIN chunkPc : ChunkStart(k)
    \/ \E k \in DOMAIN chunkPc : ChunkSample(k)
    \/ \E k \in DOMAIN chunkPc : ChunkAdd(k)
    \/ \E k \in DOMAIN chunkPc : ChunkPanik(k)

\* ============================================================ specifications
Next == NextBalken \/ NextChunk

\* a run of either program
Spec == Init /\ [][Next]_vars

\* approximiere_pi on its own: the partitioner applied to every sample count
\* and thread count of a range
InitPart ==
    /\ variante = "chunk"
    /\ eingabe \in {[zahl |-> TRUE, wert |-> n] : n \in 0..MaxTropfen}
    /\ num_threads \in 1..MaxPartThreads
    /\ pcMain = "eingabe"
    /\ gesamt_punkte = 0
    /\ punkte_pro_thread = 0
    /\ rechner_erstellt = FALSE
    /\ punkte_innen = 0
    /\ punkte_gesamt = 0
    /\ thread_fortschritte = [i \in ThreadIds |-> 0]
    /\ spinner_aktuell = 0
    /\ pc = [i \in ThreadIds |-> "wartet"]
    /\ verarbeitet = [i \in ThreadIds |-> 0]
    /\ batch_groesse = [i \in ThreadIds |-> 0]
    /\ lokale_treffer = [i \in ThreadIds |-> 0]
    /\ gezogen = [i \in ThreadIds |-> 0]
    /\ schleife_i = [i \in ThreadIds |-> 0]
    /\ aktuell = [i \in ThreadIds |-> 0]
    /\ joinErgebnis = "offen"
    /\ melderPc = "nicht_gestartet"
    /\ melder_i = 0
    /\ melder_fortschritt = 0
    /\ anzeige_i = 0
    /\ bildschirm = [i \in ThreadIds |-> <<>>]
    /\ pi_approximation = <<>>
    /\ cpc = "bestaetigt"
    /\ tropfenzahl = eingabe.wert
    /\ chunk_size = 0
    /\ chunks = <<>>
    /\ counter = 0
    /\ chunkPc = <<>>
    /\ local_count = <<>>
    /\ chunk_pos = <<>>
    /\ pi_approx = <<>>

SpecPart == InitPart /\ [][Partitioniere]_vars

\* a run of src/src/main.rs without panics under fair scheduling: main, every
\* rayon task and the display thread each take their next step eventually,
\* as long as they have one
InitBalken == Init /\ variante = "balken"

FairSpec ==
    /\ InitBalken
    /\ [][NextOhnePanik]_vars
    /\ WF_vars(MainBalken)
    /\ \A i \in 0..(MaxThreads - 1) :
          WF_vars(i \in ThreadIds /\ Worker(i))
    /\ WF_vars(Melder)

\* main and the tasks alone: the display thread is spawned but takes no
\* step.  It writes only the spinner and the terminal, which neither main
\* nor a task reads, so every run of FairSpec is, on all other variables, a
\* run of FairRechnung.
NextRechnung ==
    \/ LiesEingabe
    \/ Bestaetige
    \/ Erstelle
    \/ StarteBerechnung
    \/ StarteMelder
    \/ Join
    \/ LetzteAnzeige
    \/ Berechne
    \/ Ausgabe
    \/ \E i \in ThreadIds : BeginneBatch(i)
    \/ \E i \in ThreadIds : Sample(i)
    \/ \E i \in ThreadIds : AddInnen(i)
    \/ \E i \in ThreadIds : AddGesamt(i)
    \/ \E i \in ThreadIds : LadeFortschritt(i)
    \/ \E i \in ThreadIds : SpeichereFortschritt(i)

\* main and every started task keep being scheduled
FairRechnung ==
    /\ InitBalken
    /\ [][NextRechnung]_vars
    /\ WF_vars(MainBalken)
    /\ \A i \in 0..(MaxThreads - 1) :
          WF_vars(i \in ThreadIds /\ Worker(i))

\* ==================================================================== claims
\* the samples of thread i that have been added to punkte_gesamt: those of
\* its finished batches and, after line 87, those of its current batch
Veroeffentlicht(i) ==
    verarbeitet[i]
      + (IF pc[i] \in {"load_fortschritt", "store_fortschritt"}
         THEN batch_groesse[i] ELSE 0)

\* main has read the counters for the estimate (line 262)
Aggregiert == pcMain \in {"aggregiert", "ende"}

\* C1: in src/src/main.rs, for every sample count N >= 1 and every thread
\* count, once all tasks have finished and join has returned Ok,
\* punkte_gesamt equals N.
C1_GesamtGleichN ==
    (Balkenlauf /\ joinErgebnis = "Ok" /\ gesamt_punkte >= 1)
        => punkte_gesamt = gesamt_punkte

\* C2: for every N >= 1 and T >= 1 the chunks of approximiere_pi, each
\* [start, min(start + c, N)) for the start indices 0, c, 2c, ... below N, lie
\* in [0, N) and every sample index of [0, N) lies in exactly one of them.
C2_ChunksPartitionieren ==
    (cpc = "for_each" /\ tropfenzahl >= 1) =>
        /\ \A k \in 1..Len(chunks) :
              /\ chunks[k] = (k - 1) * chunk_size
              /\ 0 <= chunks[k]
              /\ chunks[k] < ChunkEnde(chunks[k], chunk_size, tropfenzahl)
              /\ ChunkEnde(chunks[k], chunk_size, tropfenzahl) <= tropfenzahl
        /\ \A idx \in 0..(tropfenzahl - 1) :
              Cardinality({k \in 1..Len(chunks) :
                  /\ chunks[k] <= idx
                  /\ idx < ChunkEnde(chunks[k], chunk_size, tropfenzahl)}) = 1

\* C2 witness: a partition into at least three chunks, the last one shorter
C2_Witness ==
    /\ cpc = "for_each"
    /\ Len(chunks) >= 3
    /\ tropfenzahl % chunk_size # 0
    /\ chunk_size > CHUNK_SIZE

\* C3: in src/src/main.rs 0 <= punkte_innen <= punkte_gesamt holds in every
\* reachable state, also between the two fetch_add of a verarbeite_batch.
C3_TrefferHoechstensGesamt ==
    Balkenlauf => (0 <= punkte_innen /\ punkte_innen <= punkte_gesamt)

\* C4: the estimate is computed only behind the barrier: when berechne_pi
\* (src/src/main.rs) or counter.load (src/main.rs) has read the counters, no
\* task is waiting to run or inside a batch or chunk; every task has ended,
\* and when no task panicked every task has processed and published all the
\* samples assigned to it.
C4_SchaetzungNachBarriere ==
    /\ pi_approximation # <<>> =>
          /\ joinErgebnis \in {"Ok", "Err"}
          /\ \A i \in ThreadIds : pc[i] \in {"fertig", "panik"}
          /\ joinErgebnis = "Ok" =>
                \A i \in ThreadIds :
                    /\ pc[i] = "fertig"
                    /\ verarbeitet[i] = punkte_pro_thread
                    /\ Veroeffentlicht(i) = punkte_pro_thread
    /\ pi_approx # <<>> =>
          \A k \in DOMAIN chunkPc :
              /\ chunkPc[k] = "fertig"
              /\ chunk_pos[k] = ChunkEnde(chunks[k], chunk_size, tropfenzahl)

\* C4 witness: the estimate of a run of two threads that all finished
C4_Witness ==
    /\ pi_approximation # <<>>
    /\ joinErgebnis = "Ok"
    /\ num_threads = 2
    /\ punkte_gesamt = 4

\* C5: a sample count of 0 is rejected before any counter is created and
\* before any task is started, and never reaches the aggregation.
C5_NullAbgelehnt ==
    (Balkenlauf /\ eingabe.zahl /\ eingabe.wert = 0) =>
        /\ ~rechner_erstellt
        /\ \A i \in ThreadIds : pc[i] = "wartet"
        /\ pi_approximation = <<>>

\* C6: when a task fails, so that join returns Err, no estimate is computed
\* from the counters, which lack that task's samples.
C6_KeineSchaetzungNachFehler ==
    joinErgebnis = "Err" => pi_approximation = <<>>

\* C7: whenever the estimate is computed for a sample count N >= 1 (all
\* tasks having finished), punkte_gesamt is greater than zero, also for
\* N < thread_anzahl.
C7_GesamtPositiv ==
    (Balkenlauf /\ Aggregiert /\ joinErgebnis = "Ok" /\ gesamt_punkte >= 1)
        => punkte_gesamt > 0

\* C8: no step of any thread, under any interleaving, decreases punkte_innen,
\* punkte_gesamt or the hit counter of approximiere_pi.
C8_ZaehlerMonoton ==
    [][/\ punkte_innen' >= punkte_innen
       /\ punkte_gesamt' >= punkte_gesamt
       /\ counter' >= counter]_vars

\* C8 witness: both counters have grown by an earlier batch and a task is
\* between its two fetch_add
C8_Witness ==
    /\ punkte_gesamt >= 2
    /\ punkte_innen >= 1
    /\ \E i \in ThreadIds : pc[i] = "add_gesamt" /\ batch_groesse[i] < punkte_gesamt

\* C9: for every N >= 1, under fair scheduling, the display thread, once
\* started, eventually leaves its loop because it read punkte_gesamt >= N.
C9_MelderEndet ==
    (melderPc = "pruefe" /\ gesamt_punkte >= 1) ~> (melderPc = "beendet")

\* C10: a verarbeite_batch of size b changes no shared counter during its
\* sampling loop and publishes once after it: the step of line 86 adds its
\* local hit count h, 0 <= h <= b, to punkte_innen, the step of line 87 adds
\* b to punkte_gesamt, nothing else changes the two counters, and
\* punkte_gesamt is at all times the sum of the batch sizes published so far.
C10_BatchSchritte ==
    \A i \in ThreadIds :
        /\ (pc[i] = "sampling" /\ <<pc[i], schleife_i[i]>>' # <<pc[i], schleife_i[i]>>)
              => UNCHANGED <<punkte_innen, punkte_gesamt, thread_fortschritte>>
        /\ (pc[i] = "add_innen" /\ pc'[i] # pc[i])
              => /\ lokale_treffer[i] \in 0..batch_groesse[i]
                 /\ schleife_i[i] = batch_groesse[i]
                 /\ punkte_innen' = punkte_innen + lokale_treffer[i]
                 /\ punkte_gesamt' = punkte_gesamt
        /\ (pc[i] = "add_gesamt" /\ pc'[i] # pc[i])
              => /\ punkte_gesamt' = punkte_gesamt + batch_groesse[i]
                 /\ punkte_innen' = punkte_innen

C10_NurVeroeffentlichung ==
    <<punkte_innen, punkte_gesamt>>' # <<punkte_innen, punkte_gesamt>>
        => \E i \in ThreadIds :
              pc[i] \in {"add_innen", "add_gesamt"} /\ pc'[i] # pc[i]

C10_EinmalProBatch ==
    /\ [](Balkenlauf => punkte_gesamt = Summe([i \in ThreadIds |-> Veroeffentlicht(i)], ThreadIds))
    /\ [][C10_BatchSchritte /\ C10_NurVeroeffentlichung]_vars

\* C10 witness: a thread has published a full batch with one hit and one miss
\* after an earlier batch
C10_Witness ==
    \E i \in ThreadIds :
        /\ pc[i] = "load_fortschritt"
        /\ verarbeitet[i] >= 1
        /\ batch_groesse[i] = 2
        /\ lokale_treffer[i] = 1

\* C11: thread_fortschritte[i] is written only by the task of thread_id i,
\* in its store of lines 94-96, and never decreases; a step that writes it
\* is a step of that one task, so no two tasks write the same counter.
C11_NurEigenerZaehler ==
    [][\A i \in ThreadIds :
          thread_fortschritte'[i] # thread_fortschritte[i] =>
              /\ pc[i] = "store_fortschritt"
              /\ pc'[i] = "schleife"
              /\ thread_fortschritte'[i] > thread_fortschritte[i]
              /\ \A j \in ThreadIds \ {i} :
                    /\ pc'[j] = pc[j]
                    /\ thread_fortschritte'[j] = thread_fortschritte[j]]_vars

\* C11 witness: two tasks, one has written its counter and the other is
\* about to write its own
C11_Witness ==
    /\ num_threads = 2
    /\ thread_fortschritte[1] = 2
    /\ thread_fortschritte[0] = 0
    /\ pc[0] = "store_fortschritt"

C13_RestAnLetzten ==
    (Balkenlauf /\ joinErgebnis = "Ok") =>
        /\ \A i \in ThreadIds :
              verarbeitet[i] =
                  (gesamt_punkte \div num_threads)
                    + (IF i = num_threads - 1
                       THEN gesamt_punkte % num_threads ELSE 0)
        /\ Summe(verarbeitet, ThreadIds) = gesamt_punkte

\* C14: for every N >= 1 and T >= 1 approximiere_pi emits exactly
\* ceil(N / c) chunks for its chunk size c; every chunk but the last has
\* exactly c samples and the last has between 1 and c samples.
C14_ChunkAnzahl ==
    (cpc = "for_each" /\ tropfenzahl >= 1) =>
        /\ chunk_size >= 1
        /\ Len(chunks) = (tropfenzahl + chunk_size - 1) \div chunk_size
        /\ \A k \in 1..Len(chunks) :
              LET groesse == ChunkEnde(chunks[k], chunk_size, tropfenzahl)
                                - chunks[k]
              IN  IF k < Len(chunks)
                  THEN groesse = chunk_size
                  ELSE 1 <= groesse /\ groesse <= chunk_size

\* C14 witness: N a multiple of c with several chunks, the last one full
C14_Witness ==
    /\ cpc = "for_each"
    /\ Len(chunks) >= 4
    /\ tropfenzahl = Len(chunks) * chunk_size

\* C15: the final counters are a function of the hit outcomes alone, whatever
\* the interleaving was: once every task has finished, punkte_innen is the sum
\* of the hits the tasks drew and punkte_gesamt the sum of the samples they
\* processed (src/src/main.rs), and counter is the sum of the chunks'
\* local_count (src/main.rs).
C15_Reihenfolgeunabhaengig ==
    /\ (Balkenlauf /\ pcMain # "eingabe"
          /\ \A i \in ThreadIds : pc[i] = "fertig") =>
            /\ punkte_innen = Summe(gezogen, ThreadIds)
            /\ punkte_gesamt = Summe(verarbeitet, ThreadIds)
            /\ punkte_gesamt = num_threads * punkte_pro_thread
    /\ (Chunklauf /\ cpc = "for_each"
          /\ \A k \in DOMAIN chunkPc : chunkPc[k] = "fertig") =>
            counter = Summe(local_count, DOMAIN local_count)

\* C15 witness: two tasks that drew different numbers of hits have both
\* finished
C15_Witness ==
    /\ Balkenlauf
    /\ num_threads = 2
    /\ \A i \in ThreadIds : pc[i] = "fertig"
    /\ gezogen[0] = 2
    /\ gezogen[1] = 1

\* C16: in src/main.rs the sample count handed to approximiere_pi is at least
\* MIN_TROPFEN: it is the typed number when the input parses to a number
\* n >= MIN_TROPFEN, which is exactly when validate_tropfenzahl returns Ok(n),
\* and DEFAULT_TROPFEN after any error.
C16_TropfenzahlMindestens ==
    (Chunklauf /\ cpc # "eingabe") =>
        /\ tropfenzahl >= MIN_TROPFEN
        /\ validate_tropfenzahl(eingabe).ok
              <=> (eingabe.zahl /\ eingabe.wert >= MIN_TROPFEN)
        /\ tropfenzahl = IF eingabe.zahl /\ eingabe.wert >= MIN_TROPFEN
                         THEN eingabe.wert
                         ELSE DEFAULT_TROPFEN

\* C16 witness: a number below MIN_TROPFEN was typed and approximiere_pi
\* runs on DEFAULT_TROPFEN samples
C16_Witness ==
    /\ Chunklauf
    /\ cpc = "for_each"
    /\ eingabe.zahl
    /\ eingabe.wert < MIN_TROPFEN
    /\ tropfenzahl = DEFAULT_TROPFEN

\* C17: no step of aktualisiere_anzeige, in the display thread or in the
\* final render after the join, and no other step of the display thread
\* changes punkte_innen, punkte_gesamt or any thread_fortschritte[i].
C17_AnzeigeLiestNur ==
    [][(\/ melderPc' # melderPc
        \/ melder_i' # melder_i
        \/ melder_fortschritt' # melder_fortschritt
        \/ anzeige_i' # anzeige_i
        \/ bildschirm' # bildschirm
        \/ spinner_aktuell' # spinner_aktuell)
          => UNCHANGED <<punkte_innen, punkte_gesamt, thread_fortschritte>>]_vars

\* C17 witness: the display thread prints a progress value it read while a
\* task is still running
C17_Witness ==
    /\ melderPc = "drucke"
    /\ melder_fortschritt >= 1
    /\ punkte_innen >= 1
    /\ \E i \in ThreadIds : pc[i] = "sampling"

\* C18: the chunk size approximiere_pi steps with is never 0: for every
\* N >= 1 and T >= 1 it lies between min(CHUNK_SIZE, N) and N; a computed
\* chunk size of 0, which arises for N = 0, stops the run in step_by before
\* any chunk is created.
C18_ChunkSizeGeklemmt ==
    (Chunklauf /\ cpc \in {"for_each", "panik", "berechnet", "ende"}) =>
        /\ tropfenzahl >= 1 =>
              /\ chunk_size >= 1
              /\ Min(CHUNK_SIZE, tropfenzahl) <= chunk_size
              /\ chunk_size <= tropfenzahl
              /\ chunk_size = CHUNK_SIZE
                   \/ chunk_size = tropfenzahl
                   \/ chunk_size = tropfenzahl \div (num_threads * 10)
        /\ tropfenzahl = 0 =>
              /\ chunk_size = 0
              /\ cpc = "panik"
              /\ chunks = <<>>
        /\ cpc = "for_each" => chunk_size >= 1

\* C18 witness: fewer samples than CHUNK_SIZE, the chunk size is clamped to
\* the sample count
C18_Witness ==
    /\ cpc = "for_each"
    /\ tropfenzahl < CHUNK_SIZE
    /\ chunk_size = tropfenzahl
    /\ Len(chunks) = 1

\* C19: a started run completes under fair scheduling: every batch of a task
\* has min(BatchMax, remaining) >= 1 samples, every completed batch raises
\* verarbeitet without passing punkte_pro_thread, and a run whose tasks were
\* started reaches the state where every task has processed exactly
\* punkte_pro_thread samples, the join has returned and the estimate is
\* computed.
C19_LaufEndet ==
    /\ [](\A i \in ThreadIds :
            pc[i] \in {"sampling", "add_innen", "add_gesamt",
                       "load_fortschritt", "store_fortschritt"} =>
                /\ batch_groesse[i] >= 1
                /\ batch_groesse[i] =
                       Min(BatchMax, punkte_pro_thread - verarbeitet[i]))
    /\ [][\A i \in ThreadIds :
            verarbeitet'[i] # verarbeitet[i] =>
                /\ verarbeitet'[i] > verarbeitet[i]
                /\ verarbeitet'[i] <= punkte_pro_thread]_vars
    /\ (pcMain = "berechnung_gestartet") ~>
            (/\ Aggregiert
             /\ joinErgebnis = "Ok"
             /\ \A i \in ThreadIds :
                   pc[i] = "fertig" /\ verarbeitet[i] = punkte_pro_thread)

\* C19 witness: a task whose loop ran more than one batch has finished and
\* the run is over
C19_Witness ==
    /\ Balkenlauf
    /\ pcMain = "ende"
    /\ joinErgebnis = "Ok"
    /\ \E i \in ThreadIds : pc[i] = "fertig" /\ verarbeitet[i] > BatchMax

\* C20: at the end of a run the progress line last printed for each thread
\* shows that thread's final progress value: a print of the display thread
\* that carries a value read before the tasks finished does not come after
\* the final render of line 253.
C20_LetzteAnzeigeAktuell ==
    (Balkenlauf /\ pcMain = "ende" /\ joinErgebnis = "Ok") =>
        \A i \in ThreadIds :
            bildschirm[i] = Balken(thread_fortschritte[i], punkte_pro_thread)

\* C21: in src/src/main.rs, in every reachable state the sum of the
\* thread_fortschritte counters is at most punkte_gesamt and each counter is
\* at most punkte_pro_thread; once every task has ended, the sum equals
\* punkte_gesamt.
C21_FortschrittHoechstensGesamt ==
    (Balkenlauf /\ rechner_erstellt) =>
        /\ Summe(thread_fortschritte, ThreadIds) <= punkte_gesamt
        /\ \A i \in ThreadIds :
              /\ 0 <= thread_fortschritte[i]
              /\ thread_fortschritte[i] <= punkte_pro_thread
        /\ AlleWorkerBeendet =>
              Summe(thread_fortschritte, ThreadIds) = punkte_gesamt

\* C21 witness: of two tasks one has stored its progress and the other has
\* added its batch to punkte_gesamt but not yet stored its progress
C21_Witness ==
    /\ Balkenlauf
    /\ num_threads = 2
    /\ thread_fortschritte[0] = 2
    /\ pc[1] = "store_fortschritt"
    /\ Summe(thread_fortschritte, ThreadIds) < punkte_gesamt

=============================================================================
